---- MODULE Spec2Model ----
(***************************************************************************)
(* NextDNS-Rewrites: main.py reconciles the rewrites of one NextDNS        *)
(* profile against a YAML configuration.  The model follows main() call    *)
(* by call: every HTTP request is one step, taken together with the        *)
(* handling of its answer (the try/except around it).                      *)
(***************************************************************************)
EXTENDS Integers, Sequences, FiniteSets, TLC

\* ------------------------------------------------------------------ bounds
MaxProfiles == 2
MaxRewrites == 2
MaxRemote == 2

\* ----------------------------------------------------------------- domains
ProfileNames == {"home", "work"}
ConfigProfileNames == {"home", ""}
Names == {"a.lan", "b.lan"}
Contents == {"10.0.0.1", "10.0.0.2"}
RemoteContents == {"10.0.0.1"}

SeqsUpTo(S, n) == UNION {[1..k -> S] : k \in 0..n}

RewriteSpec == [name : Names, content : Contents]

\* The provider's answer to GET /profiles: ids are distinct, names need not be.
ProfileLists ==
    {[k \in 1..Len(ns) |-> [id |-> k, name |-> ns[k]]] : ns \in SeqsUpTo(ProfileNames, MaxProfiles)}

\* A profile's rewrite list before the run: ids are distinct.
RemoteLists ==
    {[k \in 1..Len(es) |-> [id |-> k, name |-> es[k].name, content |-> es[k].content]] :
        es \in SeqsUpTo([name : Names, content : RemoteContents], MaxRemote)}

\* Messages of the ApiError the client raises; "200" and "ok" are normal returns.
DeletedMessage == "Error code: 204"
NotFoundMessage == "Error code: 404"
ServerErrorMessage == "Error code: 500"

VARIABLES
    profile_name,       \* config["profile_name"]
    rewrites,           \* config["rewrites"]
    profiles,           \* provider side: the account's profiles
    remote,             \* provider side: profile id -> its rewrite list
    next_id,            \* provider side: the id the next created rewrite gets
    pc,                 \* position of main()
    profile,            \* index in profiles of the resolved profile, 0 before
    existing_rewrites,  \* the list fetched at line 107
    i,                  \* index of the desired rewrite the outer loop is at
    exit_status,        \* -1 while running, then the process's exit status
    calls,              \* history: the HTTP requests of this run, in order
    remote0,            \* history: remote as it was when this run started
    run,                \* "first" or "second" invocation of the program
    prev_calls,         \* history: calls of the previous run
    prev_exit,          \* history: exit status of the previous run
    prev_remote0        \* history: remote as it was when the previous run started

vars == <<profile_name, rewrites, profiles, remote, next_id, pc, profile,
          existing_rewrites, i, exit_status, calls, remote0, run, prev_calls, prev_exit,
          prev_remote0>>

config == <<profile_name, rewrites, profiles>>
history == <<remote0, run, prev_calls, prev_exit, prev_remote0>>

\* ------------------------------------------------------- pure parts of main
\* Variant: a lookup that falls back to the first profile when no name matches.
ResolveProfile_DefaultsToFirst(ps, name) ==
    LET hits == {k \in 1..Len(ps) : ps[k].name = name}
    IN  IF hits = {}
        THEN (IF Len(ps) > 0 THEN 1 ELSE 0)
        ELSE CHOOSE k \in hits : \A h \in hits : k <= h

\* next((p for p in profiles if p["name"] == profile_name), None): index or 0.
ResolveProfile(ps, name) ==
    LET hits == {k \in 1..Len(ps) : ps[k].name = name}
    IN  IF hits = {} THEN 0 ELSE CHOOSE k \in hits : \A h \in hits : k <= h

\* Variant: the scan without its break, so the last match wins.
FirstMatch_Last(existing, name) ==
    LET hits == {k \in 1..Len(existing) : existing[k].name = name}
    IN  IF hits = {} THEN 0 ELSE CHOOSE k \in hits : \A h \in hits : k >= h

\* Variant: the comparison tests the entry's name for truth, not for equality.
FirstMatch_IgnoresName(existing, name) ==
    IF Len(existing) > 0 THEN 1 ELSE 0

\* Variant: the else belongs to the if, so only the head of the list is compared.
FirstMatch_HeadOnly(existing, name) ==
    IF Len(existing) > 0 /\ existing[1].name = name THEN 1 ELSE 0

\* The inner for loop with its break and its else: the first entry of the
\* fetched list whose name equals the desired name, as an index, or 0.
FirstMatch(existing, name) ==
    LET hits == {k \in 1..Len(existing) : existing[k].name = name}
    IN  IF hits = {} THEN 0 ELSE CHOOSE k \in hits : \A h \in hits : k <= h

\* Variant: every ApiError of the DELETE is taken for the successful one.
DeleteErrorIsSuccess_Any(msg) == TRUE

\* except ApiError around the DELETE: only this message lets the run go on.
DeleteErrorIsSuccess(msg) == msg = DeletedMessage

\* Variant: the URL is built from the head of the fetched list.
DeleteTarget_Head(existing, m) == existing[1].id

\* The URL of the DELETE names the id of the entry the scan stopped at.
DeleteTarget(existing, m) == existing[m].id

\* Variant: main() returns after the first create.
AfterCreate_ReturnsEarly(idx, n) == [pc |-> "exited", i |-> idx, status |-> 0]

\* After a create that returned: the outer for loop moves to the next desired
\* rewrite; after the last one main() returns and the process ends with 0.
AfterCreate(idx, n) ==
    IF idx < n
    THEN [pc |-> "loop", i |-> idx + 1, status |-> -1]
    ELSE [pc |-> "exited", i |-> idx, status |-> 0]

\* Variant: the handler logs the error and forgets exit(1).
OnCreateError_Continue(idx, n) ==
    IF idx < n
    THEN [pc |-> "loop", i |-> idx + 1, status |-> -1]
    ELSE [pc |-> "exited", i |-> idx, status |-> 0]

\* except ApiError around create_rewrite: log, then exit(1).
OnCreateError(idx, n) == [pc |-> "exited", i |-> idx, status |-> 1]

\* ------------------------------------------------------------ the provider
\* DELETE /profiles/{p}/rewrites/{id}.
ServerDelete(list, id) == SelectSeq(list, LAMBDA e : e.id # id)

\* POST /profiles/{p}/rewrites with body rw: a new, independent entry.
ServerCreate(list, id, rw) ==
    Append(list, [id |-> id, name |-> rw.name, content |-> rw.content])

\* What a DELETE can answer: a normal return or the 204 "error" when it
\* deleted, another error when it did not.  For an id that is gone the
\* provider either repeats 204 or reports it missing.
DeleteAnswers(list, id) ==
    IF \E k \in 1..Len(list) : list[k].id = id
    THEN {"200", DeletedMessage, ServerErrorMessage}
    ELSE {DeletedMessage, NotFoundMessage}

DeleteRemoves(answer) == answer \in {"200", DeletedMessage}

Call(verb, p, id, rw, answer, idx) ==
    [verb |-> verb, profile |-> p, id |-> id, name |-> rw.name,
     content |-> rw.content, answer |-> answer, for |-> idx]

NoRewrite == [name |-> "", content |-> ""]

\* ------------------------------------------------------------------- Init
Init ==
    /\ profile_name \in ConfigProfileNames
    /\ rewrites \in SeqsUpTo(RewriteSpec, MaxRewrites)
    /\ profiles \in ProfileLists
    /\ \E L \in RemoteLists :
        /\ remote = [p \in 1..Len(profiles) |-> L]
        /\ next_id = Len(L) + 1
    /\ pc = "config"
    /\ profile = 0
    /\ existing_rewrites = <<>>
    /\ i = 1
    /\ exit_status = -1
    /\ calls = <<>>
    /\ remote0 = remote
    /\ run = "first"
    /\ prev_calls = <<>>
    /\ prev_exit = -1
    /\ prev_remote0 = remote

Exit(status) ==
    /\ pc' = "exited"
    /\ exit_status' = status

\* ---------------------------------------------------------------- actions
\* Lines 67-79: a missing profile name or an empty rewrites list ends the run.
LoadConfig ==
    /\ pc = "config"
    /\ IF profile_name = "" \/ rewrites = <<>>
       THEN Exit(1)
       ELSE pc' = "get_profiles" /\ UNCHANGED exit_status
    /\ UNCHANGED <<config, remote, next_id, profile, existing_rewrites, i, calls, history>>

\* Lines 84-103: GET /profiles, then the lookup by name.
GetProfiles ==
    /\ pc = "get_profiles"
    /\ \E answer \in {"ok", ServerErrorMessage} :
        /\ calls' = Append(calls, Call("GET_PROFILES", 0, 0, NoRewrite, answer, 0))
        /\ IF answer # "ok"
           THEN Exit(1) /\ UNCHANGED profile
           ELSE LET found == ResolveProfile(profiles, profile_name)
                IN  IF found = 0
                    THEN Exit(1) /\ UNCHANGED profile
                    ELSE /\ profile' = found
                         /\ pc' = "get_rewrites"
                         /\ UNCHANGED exit_status
    /\ UNCHANGED <<config, remote, next_id, existing_rewrites, i, history>>

\* Lines 105-113: GET /profiles/{id}/rewrites.
GetRewrites ==
    /\ pc = "get_rewrites"
    /\ \E answer \in {"ok", ServerErrorMessage} :
        /\ calls' = Append(calls, Call("GET_REWRITES", profiles[profile].id, 0, NoRewrite, answer, 0))
        /\ IF answer # "ok"
           THEN Exit(1) /\ UNCHANGED existing_rewrites
           ELSE /\ existing_rewrites' = remote[profiles[profile].id]
                /\ pc' = "loop"
                /\ UNCHANGED exit_status
    /\ UNCHANGED <<config, remote, next_id, profile, i, history>>

\* Lines 115-134: the desired rewrite has a match in the fetched list: DELETE it.
DeleteExisting ==
    /\ pc = "loop"
    /\ LET m == FirstMatch(existing_rewrites, rewrites[i].name)
           p == profiles[profile].id
           target == DeleteTarget(existing_rewrites, m)
       IN  /\ m # 0
           /\ \E answer \in DeleteAnswers(remote[p], target) :
                /\ calls' = Append(calls, Call("DELETE", p, target, rewrites[i], answer, i))
                /\ remote' = IF DeleteRemoves(answer)
                             THEN [remote EXCEPT ![p] = ServerDelete(@, target)]
                             ELSE remote
                /\ IF answer = "200" \/ DeleteErrorIsSuccess(answer)
                   THEN pc' = "recreate" /\ UNCHANGED exit_status
                   ELSE Exit(1)
    /\ UNCHANGED <<config, next_id, profile, existing_rewrites, i, history>>

\* create_rewrite (lines 11-34) and the handling of its ApiError.
Create(from) ==
    /\ pc = from
    /\ LET p == profiles[profile].id
       IN  \E answer \in {"ok", ServerErrorMessage} :
            LET then == IF answer = "ok"
                        THEN AfterCreate(i, Len(rewrites))
                        ELSE OnCreateError(i, Len(rewrites))
            IN  /\ calls' = Append(calls, Call("POST", p, 0, rewrites[i], answer, i))
                /\ remote' = IF answer = "ok"
                             THEN [remote EXCEPT ![p] = ServerCreate(@, next_id, rewrites[i])]
                             ELSE remote
                /\ next_id' = IF answer = "ok" THEN next_id + 1 ELSE next_id
                /\ pc' = then.pc
                /\ i' = then.i
                /\ exit_status' = then.status
    /\ UNCHANGED <<config, profile, existing_rewrites, history>>

\* Lines 135-146: recreate the rewrite that was just deleted.
Recreate == Create("recreate")

\* Lines 147-159: the desired rewrite has no match in the fetched list.
CreateMissing ==
    /\ pc = "loop"
    /\ FirstMatch(existing_rewrites, rewrites[i].name) = 0
    /\ Create("loop")

\* The operator starts the program again with the same configuration.
Rerun ==
    /\ pc = "exited"
    /\ run = "first"
    /\ run' = "second"
    /\ prev_calls' = calls
    /\ prev_exit' = exit_status
    /\ prev_remote0' = remote0
    /\ remote0' = remote
    /\ pc' = "config"
    /\ profile' = 0
    /\ existing_rewrites' = <<>>
    /\ i' = 1
    /\ exit_status' = -1
    /\ calls' = <<>>
    /\ UNCHANGED <<config, remote, next_id>>

Next ==
    \/ LoadConfig
    \/ GetProfiles
    \/ GetRewrites
    \/ DeleteExisting
    \/ Recreate
    \/ CreateMissing

Spec == Init /\ [][Next]_vars

NextTwice == Next \/ Rerun

SpecTwice == Init /\ [][NextTwice]_vars

\* ------------------------------------------------------ reading the history
Target == profiles[profile].id

CallsFor(idx) == SelectSeq(calls, LAMBDA c : c.for = idx)

Mutating(c) == c.verb \in {"DELETE", "POST"}

\* A call whose answer the code must treat as a failure.
Failed(c) ==
    /\ c.answer \notin {"ok", "200"}
    /\ ~(c.verb = "DELETE" /\ c.answer = DeletedMessage)

\* The outer loop is past desired rewrite idx.
Processed(idx) == idx < i \/ exit_status = 0

\* Entry k is the first of the list with its name.
FirstWithName(list, k) == \A j \in 1..(k - 1) : list[j].name # list[k].name

HasName(list, name) == \E k \in 1..Len(list) : list[k].name = name

Holds(list, rw) ==
    \E k \in 1..Len(list) : list[k].name = rw.name /\ list[k].content = rw.content

\* C1: after a run that ends with exit status 0, the resolved profile holds,
\* for every configured rewrite, a rewrite with that name and that content.
C1_ExitZeroConverged ==
    exit_status = 0 =>
        \A k \in 1..Len(rewrites) : Holds(remote[Target], rewrites[k])

C1_Witness ==
    /\ exit_status = 0
    /\ Len(rewrites) = 2
    /\ \E k \in 1..Len(rewrites), e \in 1..Len(existing_rewrites) :
        /\ existing_rewrites[e].name = rewrites[k].name
        /\ existing_rewrites[e].content # rewrites[k].content
    /\ \E k \in 1..Len(rewrites) : ~HasName(existing_rewrites, rewrites[k].name)

\* C2: a desired rewrite whose name is in the fetched list gets, once the
\* loop is past it, exactly one DELETE addressed to the id of the first entry
\* with that name and then exactly one POST with the desired name and
\* content; at no time does a POST for it come before its DELETE.
C2_ReplaceIsDeleteThenCreate ==
    \A idx \in 1..Len(rewrites) :
        HasName(existing_rewrites, rewrites[idx].name) =>
            LET cs == CallsFor(idx)
            IN  /\ Len(cs) <= 2
                /\ Len(cs) >= 1 =>
                    /\ cs[1].verb = "DELETE"
                    /\ \E k \in 1..Len(existing_rewrites) :
                        /\ existing_rewrites[k].name = rewrites[idx].name
                        /\ FirstWithName(existing_rewrites, k)
                        /\ cs[1].id = existing_rewrites[k].id
                /\ Len(cs) = 2 =>
                    /\ ~Failed(cs[1])
                    /\ cs[2].verb = "POST"
                    /\ cs[2].name = rewrites[idx].name
                    /\ cs[2].content = rewrites[idx].content
                /\ Processed(idx) => Len(cs) = 2 /\ ~Failed(cs[2])

C2_Witness ==
    /\ exit_status = 0
    /\ \E idx \in 1..Len(rewrites), k \in 1..Len(existing_rewrites) :
        /\ existing_rewrites[k].name = rewrites[idx].name
        /\ ~FirstWithName(existing_rewrites, k)

\* C3: a desired rewrite whose name is not in the fetched list never gets a
\* DELETE and gets at most one POST, exactly one once the loop is past it.
C3_MissingIsCreatedOnce ==
    \A idx \in 1..Len(rewrites) :
        ~HasName(existing_rewrites, rewrites[idx].name) =>
            LET cs == CallsFor(idx)
            IN  /\ \A k \in 1..Len(cs) : cs[k].verb = "POST"
                /\ Len(cs) <= 1
                /\ Processed(idx) => Len(cs) = 1 /\ ~Failed(cs[1])

C3_Witness ==
    /\ exit_status = 0
    /\ existing_rewrites # <<>>
    /\ \E idx \in 1..Len(rewrites) : ~HasName(existing_rewrites, rewrites[idx].name)

\* C4: when no profile of the account carries the configured name, the run
\* issues no DELETE and no POST, and once GET /profiles has answered it has
\* ended with exit status 1.
C4_UnknownProfileAborts ==
    ~HasName(profiles, profile_name) =>
        /\ \A k \in 1..Len(calls) : ~Mutating(calls[k])
        /\ (\E k \in 1..Len(calls) : calls[k].verb = "GET_PROFILES" /\ calls[k].answer = "ok")
               => pc = "exited" /\ exit_status = 1

C4_Witness ==
    /\ ~HasName(profiles, profile_name)
    /\ profiles # <<>>
    /\ \E k \in 1..Len(calls) : calls[k].verb = "GET_PROFILES" /\ calls[k].answer = "ok"

\* C5: a DELETE answered with "Error code: 204" is followed by the POST for
\* the same desired rewrite (or the run stands right before it); a DELETE
\* answered with any other error is the last call of the run, which has
\* ended with exit status 1.
C5_Only204ContinuesToCreate ==
    \A k \in 1..Len(calls) :
        calls[k].verb = "DELETE" =>
            /\ calls[k].answer = DeletedMessage =>
                IF k = Len(calls)
                THEN pc = "recreate" /\ exit_status = -1 /\ i = calls[k].for
                ELSE calls[k + 1].verb = "POST" /\ calls[k + 1].for = calls[k].for
            /\ calls[k].answer \notin {"200", DeletedMessage} =>
                k = Len(calls) /\ pc = "exited" /\ exit_status = 1

C5_Witness ==
    \E k \in 1..Len(calls), l \in 1..Len(calls) :
        /\ k < l
        /\ calls[k].verb = "DELETE" /\ calls[k].answer = DeletedMessage
        /\ calls[l].verb = "DELETE" /\ calls[l].answer = ServerErrorMessage

\* The operations of a run: verb and rewrite name, in order.
Operations(cs) == [k \in 1..Len(cs) |-> <<cs[k].verb, cs[k].name>>]

BothRunsSucceeded == run = "second" /\ exit_status = 0 /\ prev_exit = 0

\* C6 as stated: two successive runs with the same configuration issue the
\* same sequence of operations.
C6_SameOperationsTwice ==
    BothRunsSucceeded => Operations(calls) = Operations(prev_calls)

\* C6 amended: two successive successful runs issue the same sequence of
\* operations when every desired name already had an entry in the profile's
\* rewrite list before the first run.
C6_SameOperationsWhenAllPresent ==
    (/\ BothRunsSucceeded
     /\ \A k \in 1..Len(rewrites) : HasName(prev_remote0[Target], rewrites[k].name))
        => Operations(calls) = Operations(prev_calls)

C6_Witness ==
    /\ BothRunsSucceeded
    /\ Len(rewrites) = 2
    /\ rewrites[1].name # rewrites[2].name
    /\ \A k \in 1..Len(rewrites) : HasName(prev_remote0[Target], rewrites[k].name)

\* C7: unless exactly one profile carries the configured name, the run
\* fetches, creates and deletes no rewrite and does not end with status 0.
C7_ExactlyOneProfileMustMatch ==
    Cardinality({k \in 1..Len(profiles) : profiles[k].name = profile_name}) # 1 =>
        /\ \A k \in 1..Len(calls) : calls[k].verb \notin {"GET_REWRITES", "DELETE", "POST"}
        /\ pc = "exited" => exit_status = 1

\* C8: a failed call is the last call of the run and ends it with exit
\* status 1; the rewrites the loop is past are still held by the profile, and
\* an entry deleted right before a failed POST is gone.
C8_FailureIsFatalNoRollback ==
    /\ \A k \in 1..Len(calls) :
        Failed(calls[k]) => k = Len(calls) /\ pc = "exited" /\ exit_status = 1
    /\ (pc = "exited" /\ exit_status = 1 /\ profile # 0) =>
        /\ \A idx \in 1..(i - 1) : Holds(remote[Target], rewrites[idx])
        /\ \A k \in 2..Len(calls) :
            (/\ k = Len(calls)
             /\ calls[k].verb = "POST"
             /\ Failed(calls[k])
             /\ calls[k - 1].verb = "DELETE"
             /\ calls[k - 1].for = calls[k].for)
                => \A e \in 1..Len(remote[Target]) : remote[Target][e].id # calls[k - 1].id

C8_Witness ==
    /\ pc = "exited"
    /\ exit_status = 1
    /\ i = 2
    /\ Len(calls) >= 2
    /\ calls[Len(calls)].verb = "POST"
    /\ Failed(calls[Len(calls)])
    /\ calls[Len(calls) - 1].verb = "DELETE"
    /\ calls[Len(calls) - 1].for = 2

\* C9: no rewrite id is the target of two DELETE calls of one run.
C9_NoIdDeletedTwice ==
    \A k \in 1..Len(calls), l \in 1..Len(calls) :
        (k < l /\ calls[k].verb = "DELETE" /\ calls[l].verb = "DELETE")
            => calls[k].id # calls[l].id

\* An entry of the list the run started with that the run may replace: the
\* first of its name, and some desired rewrite has that name.
Replaceable(list, k) ==
    /\ FirstWithName(list, k)
    /\ \E idx \in 1..Len(rewrites) : rewrites[idx].name = list[k].name

\* C10: every DELETE is addressed to the first entry, in the provider's
\* order, whose name is the name of the desired rewrite it is issued for;
\* every other entry the profile had when the run started is still there
\* with its id, name and content, and no other profile has changed.
C10_OnlyFirstMatchesDeleted ==
    /\ \A c \in 1..Len(calls) :
        calls[c].verb = "DELETE" =>
            \E k \in 1..Len(remote0[Target]) :
                /\ remote0[Target][k].id = calls[c].id
                /\ remote0[Target][k].name = calls[c].name
                /\ Replaceable(remote0[Target], k)
    /\ \A p \in DOMAIN remote :
        IF profile # 0 /\ p = Target
        THEN \A k \in 1..Len(remote0[p]) :
                ~Replaceable(remote0[p], k) =>
                    \E e \in 1..Len(remote[p]) : remote[p][e] = remote0[p][k]
        ELSE remote[p] = remote0[p]

C10_Witness ==
    /\ exit_status = 0
    /\ \E c \in 1..Len(calls) : calls[c].verb = "DELETE"
    /\ \E k \in 1..Len(remote0[Target]) :
        /\ ~FirstWithName(remote0[Target], k)
        /\ \E idx \in 1..Len(rewrites) : rewrites[idx].name = remote0[Target][k].name
        /\ \E e \in 1..Len(remote[Target]) : remote[Target][e] = remote0[Target][k]
====
